---- MODULE Spec2Model ----
(***************************************************************************)
(* Model of split_diachron_data.py: the CoNLL-U reader, the seeded         *)
(* 80/10/10 partitioner and the writer, together with main().              *)
(*                                                                         *)
(* A file is a sequence of characters, a character is a one-character      *)
(* string.  A Line is a sequence of characters, a Sentence a sequence of   *)
(* Lines, a Partition (or the Corpus) a sequence of Sentences.             *)
(***************************************************************************)
EXTENDS Integers, Sequences, FiniteSets, TLC

VARIABLES
    \* ---- the file system and one process running main() ----
    dir_exists,       \* raw/diachron exists
    dir_files,        \* the files of raw/diachron: name -> content
    out_files,        \* the three output files in '.': name -> [exists, data]
    pc,               \* position of main()
    conllu_files,     \* main: conllu_files
    all_sentences,    \* main: all_sentences
    train_size, dev_size, test_size,
    train_sentences, dev_sentences, test_sentences,
    written,          \* number of iterations of the write loop completed
    console,          \* what main() printed in this run
    error,            \* the exception that ended this run, or "none"
    history,          \* the finished runs: how each ended and what it left
    out_before,       \* out_files when this run started
    \* ---- read_conllu_sentences applied to one file ----
    rd_pc, text, sentences, text_nl, sentences_nl,
    \* ---- write_conllu_sentences followed by read_conllu_sentences ----
    rt_pc, partition, out_text, reread

mainVars == <<dir_exists, dir_files, out_files, pc, conllu_files, all_sentences,
              train_size, dev_size, test_size,
              train_sentences, dev_sentences, test_sentences,
              written, console, error, history, out_before>>
readVars == <<rd_pc, text, sentences, text_nl, sentences_nl>>
tripVars == <<rt_pc, partition, out_text, reread>>
vars == <<mainVars, readVars, tripVars>>

-----------------------------------------------------------------------------
(* Bounds of the model *)

\* longest file given to read_conllu_sentences on its own
MaxChars == 6
\* size (sentences + lines + characters) of the largest Partition written
MaxSize == 9
\* most sentences in one file of raw/diachron
MaxSent == 5

-----------------------------------------------------------------------------
(* Characters *)

LF == "\n"
CR == "\r"
Letters == {"a", "b"}
Chars == Letters \cup {LF, CR}

-----------------------------------------------------------------------------
(* Text-mode file iteration: open(file_path, 'r') and `for line in f` *)

\* open(..., 'r') without newline=: universal newlines, "\r\n" and "\r"
\* are handed to the program as "\n"
RECURSIVE Translate(_)
Translate(s) ==
    IF s = <<>> THEN <<>>
    ELSE IF s[1] = CR
         THEN IF Len(s) >= 2 /\ s[2] = LF
              THEN <<LF>> \o Translate(SubSeq(s, 3, Len(s)))
              ELSE <<LF>> \o Translate(Tail(s))
         ELSE <<s[1]>> \o Translate(Tail(s))

\* index of the first LF of s, 0 when there is none
RECURSIVE FirstLF(_, _)
FirstLF(s, i) ==
    IF i > Len(s) THEN 0
    ELSE IF s[i] = LF THEN i ELSE FirstLF(s, i + 1)

\* the lines `for line in f` yields: each keeps its "\n", the last one may
\* have none
RECURSIVE SplitLines(_)
SplitLines(s) ==
    IF s = <<>> THEN <<>>
    ELSE LET k == FirstLF(s, 1)
         IN  IF k = 0 THEN <<s>>
             ELSE <<SubSeq(s, 1, k)>> \o SplitLines(SubSeq(s, k + 1, Len(s)))

FileLines(data) == SplitLines(Translate(data))

\* line.rstrip('\n'): every trailing "\n" is removed
RECURSIVE rstrip(_)
rstrip(line) ==
    IF line # <<>> /\ line[Len(line)] = LF
    THEN rstrip(SubSeq(line, 1, Len(line) - 1))
    ELSE line

-----------------------------------------------------------------------------
(* read_conllu_sentences *)

\* a loop body that closes a Sentence at every empty line, empty or not
ReadLineNoGuard(st, raw) ==
    LET line == rstrip(raw)
    IN  IF line = <<>>
        THEN [sentences |-> Append(st.sentences, st.current_sentence),
              current_sentence |-> <<>>]
        ELSE [st EXCEPT !.current_sentence = Append(@, line)]

\* one iteration of the loop over the lines of the file
ReadLine(st, raw) ==
    LET line == rstrip(raw)
    IN  IF line = <<>>
        THEN IF st.current_sentence # <<>>
             THEN [sentences |-> Append(st.sentences, st.current_sentence),
                   current_sentence |-> <<>>]
             ELSE st
        ELSE [st EXCEPT !.current_sentence = Append(@, line)]

\* a reader that forgets the Sentence still open at end of file
ReadFlushDropped(st) == st.sentences

\* after the loop: the last Sentence when the file does not end with an
\* empty line
ReadFlush(st) ==
    IF st.current_sentence # <<>>
    THEN Append(st.sentences, st.current_sentence)
    ELSE st.sentences

RECURSIVE ReadLoop(_, _)
ReadLoop(st, lines) ==
    IF lines = <<>> THEN st
    ELSE ReadLoop(ReadLine(st, Head(lines)), Tail(lines))

read_conllu_sentences(data) ==
    ReadFlush(ReadLoop([sentences |-> <<>>, current_sentence |-> <<>>],
                       FileLines(data)))

-----------------------------------------------------------------------------
(* write_conllu_sentences *)

\* the strings the inner loop hands to f.write, in order
RECURSIVE WriteLines(_)
WriteLines(sentence) ==
    IF sentence = <<>> THEN <<>>
    ELSE <<Head(sentence) \o <<LF>>>> \o WriteLines(Tail(sentence))

\* a writer that never emits the separating empty line
SeparatorNever(i, n) == <<>>

\* the empty line after each Sentence except the last (i counts from 0)
Separator(i, n) == IF i < n - 1 THEN <<<<LF>>>> ELSE <<>>

\* every string handed to f.write, in order
RECURSIVE WriteCalls(_, _)
WriteCalls(sents, i) ==
    IF i >= Len(sents) THEN <<>>
    ELSE WriteLines(sents[i + 1]) \o Separator(i, Len(sents))
         \o WriteCalls(sents, i + 1)

RECURSIVE Flatten(_)
Flatten(ss) == IF ss = <<>> THEN <<>> ELSE Head(ss) \o Flatten(Tail(ss))

\* the content of the file once the `with` block has ended (on POSIX the
\* text layer writes "\n" as it is)
write_conllu_sentences(sents) == Flatten(WriteCalls(sents, 0))

-----------------------------------------------------------------------------
(* Values of the variables a specification does not use *)

NoFile == [exists |-> FALSE, data |-> <<>>]
OutputNames == <<"diachron-ud-train.conllu", "diachron-ud-dev.conllu",
                 "diachron-ud-test.conllu">>
OutputSet == {OutputNames[i] : i \in 1..3}

MainIdle ==
    /\ dir_exists = FALSE
    /\ dir_files = <<>>
    /\ out_files = [n \in OutputSet |-> NoFile]
    /\ pc = "idle"
    /\ conllu_files = <<>>
    /\ all_sentences = <<>>
    /\ train_size = 0 /\ dev_size = 0 /\ test_size = 0
    /\ train_sentences = <<>> /\ dev_sentences = <<>> /\ test_sentences = <<>>
    /\ written = 0
    /\ console = <<>>
    /\ error = "none"
    /\ history = <<>>
    /\ out_before = [n \in OutputSet |-> NoFile]

ReadIdle ==
    /\ rd_pc = "idle"
    /\ text = <<>> /\ sentences = <<>> /\ text_nl = <<>> /\ sentences_nl = <<>>

TripIdle ==
    /\ rt_pc = "idle"
    /\ partition = <<>> /\ out_text = <<>> /\ reread = <<>>

-----------------------------------------------------------------------------
(* SpecRead: read_conllu_sentences on every file of at most MaxChars       *)
(* characters, and on the same file with one more empty line at its end    *)

Texts == UNION {[1..n -> Chars] : n \in 0..MaxChars}

\* the file followed by one empty line (its last line is terminated first
\* when it is not)
WithEmptyLine(data) ==
    IF data # <<>> /\ data[Len(data)] = LF
    THEN data \o <<LF>>
    ELSE data \o <<LF, LF>>

InitRead ==
    /\ MainIdle /\ TripIdle
    /\ rd_pc = "open"
    /\ text \in Texts
    /\ sentences = <<>> /\ text_nl = <<>> /\ sentences_nl = <<>>

ReadFile ==
    /\ rd_pc = "open"
    /\ sentences' = read_conllu_sentences(text)
    /\ rd_pc' = "read"
    /\ UNCHANGED <<text, text_nl, sentences_nl, mainVars, tripVars>>

AppendEmptyLine ==
    /\ rd_pc = "read"
    /\ text_nl' = WithEmptyLine(text)
    /\ rd_pc' = "appended"
    /\ UNCHANGED <<text, sentences, sentences_nl, mainVars, tripVars>>

ReadAgain ==
    /\ rd_pc = "appended"
    /\ sentences_nl' = read_conllu_sentences(text_nl)
    /\ rd_pc' = "compared"
    /\ UNCHANGED <<text, sentences, text_nl, mainVars, tripVars>>

NextRead == ReadFile \/ AppendEmptyLine \/ ReadAgain

SpecRead == InitRead /\ [][NextRead]_vars

-----------------------------------------------------------------------------
(* SpecTrip: a Partition is built Sentence by Sentence, Line by Line,      *)
(* character by character, written with write_conllu_sentences and read    *)
(* back with read_conllu_sentences                                         *)

TripChars == {"a", LF, CR}

RECURSIVE SumLen(_)
SumLen(ss) == IF ss = <<>> THEN 0 ELSE Len(Head(ss)) + SumLen(Tail(ss))

\* sentences + lines + characters
Size(p) == Len(p) + SumLen(p) + SumLen(Flatten(p))

InitTrip ==
    /\ MainIdle /\ ReadIdle
    /\ rt_pc = "build"
    /\ partition = <<>> /\ out_text = <<>> /\ reread = <<>>

NewSentence ==
    /\ rt_pc = "build"
    /\ Size(partition) < MaxSize
    /\ partition' = Append(partition, <<>>)
    /\ UNCHANGED <<rt_pc, out_text, reread, mainVars, readVars>>

NewLine ==
    /\ rt_pc = "build"
    /\ Size(partition) < MaxSize
    /\ partition # <<>>
    /\ partition' = [partition EXCEPT ![Len(partition)] = Append(@, <<>>)]
    /\ UNCHANGED <<rt_pc, out_text, reread, mainVars, readVars>>

AddChar ==
    /\ rt_pc = "build"
    /\ Size(partition) < MaxSize
    /\ partition # <<>>
    /\ partition[Len(partition)] # <<>>
    /\ \E c \in TripChars :
          partition' = [partition EXCEPT
                           ![Len(partition)][Len(partition[Len(partition)])] =
                               Append(@, c)]
    /\ UNCHANGED <<rt_pc, out_text, reread, mainVars, readVars>>

WriteFile ==
    /\ rt_pc = "build"
    /\ out_text' = write_conllu_sentences(partition)
    /\ rt_pc' = "written"
    /\ UNCHANGED <<partition, reread, mainVars, readVars>>

ReadBack ==
    /\ rt_pc = "written"
    /\ reread' = read_conllu_sentences(out_text)
    /\ rt_pc' = "reread"
    /\ UNCHANGED <<partition, out_text, mainVars, readVars>>

NextTrip == NewSentence \/ NewLine \/ AddChar \/ WriteFile \/ ReadBack

SpecTrip == InitTrip /\ [][NextTrip]_vars

-----------------------------------------------------------------------------
(* Claims about read_conllu_sentences (SpecRead) *)

IsContentLine(line) == line # <<>>

\* the lines of the file without their terminators
RECURSIVE StripAll(_)
StripAll(lines) ==
    IF lines = <<>> THEN <<>>
    ELSE <<rstrip(Head(lines))>> \o StripAll(Tail(lines))

TextLines(data) == StripAll(FileLines(data))

EndsWithContentLine(data) ==
    /\ TextLines(data) # <<>>
    /\ IsContentLine(TextLines(data)[Len(TextLines(data))])

HasNoEmptyLine(data) ==
    /\ TextLines(data) # <<>>
    /\ \A i \in 1..Len(TextLines(data)) : IsContentLine(TextLines(data)[i])

\* C9: a file that ends with a non-empty line gives the same Sentences with
\* and without one more empty line at its end, and a file of one sentence
\* and no empty line gives exactly one Sentence, holding all its lines.
C9_TrailingEmptyLine ==
    /\ (rd_pc = "compared" /\ EndsWithContentLine(text))
          => /\ Len(sentences_nl) = Len(sentences)
             /\ sentences_nl = sentences
    /\ (rd_pc # "open" /\ HasNoEmptyLine(text))
          => sentences = <<TextLines(text)>>

\* a file of two sentences whose last line has no terminator, read with and
\* without the added empty line
C9_Witness ==
    /\ rd_pc = "compared"
    /\ text = <<"a", LF, LF, "b">>
    /\ text_nl = <<"a", LF, LF, "b", LF, LF>>
    /\ Len(sentences) = 2

\* C10: every Sentence read holds at least one Line, no Line of it is
\* empty, and the Lines of the Sentences, in order, are the non-empty lines
\* of the file in order.
C10_SentencesNeverEmpty ==
    rd_pc # "open" =>
        /\ \A i \in 1..Len(sentences) :
              /\ sentences[i] # <<>>
              /\ \A j \in 1..Len(sentences[i]) : sentences[i][j] # <<>>
        /\ Flatten(sentences) = SelectSeq(TextLines(text), IsContentLine)

\* a file that begins with an empty line and holds two consecutive empty
\* lines after its first sentence
C10_Witness ==
    /\ rd_pc = "read"
    /\ text = <<LF, "a", LF, LF, LF, "b">>
    /\ sentences = << << <<"a">> >>, << <<"b">> >> >>

-----------------------------------------------------------------------------
(* Claims about the round trip (SpecTrip) *)

\* non-empty Sentences of non-empty Lines that hold no line terminator
ValidPartition(p) ==
    \A i \in 1..Len(p) :
        /\ p[i] # <<>>
        /\ \A j \in 1..Len(p[i]) :
              /\ p[i][j] # <<>>
              /\ \A k \in 1..Len(p[i][j]) : p[i][j][k] \notin {LF, CR}

\* C3: reading the file written from a Partition of non-empty Sentences,
\* whose Lines are non-empty and hold no line terminator, returns that
\* Partition: as many Sentences, in the same order, with the same Lines.
C3_RoundTrip ==
    (rt_pc = "reread" /\ ValidPartition(partition)) =>
        /\ Len(reread) = Len(partition)
        /\ reread = partition

\* a Partition of two Sentences, the second of two Lines, written and read
C3_Witness ==
    /\ rt_pc = "reread"
    /\ ValidPartition(partition)
    /\ Len(partition) = 2
    /\ Len(partition[2]) = 2
    /\ out_text = <<"a", LF, LF, "a", LF, "a", LF>>

-----------------------------------------------------------------------------
(* The Partitioner: random.seed(42), random.shuffle and the split sizes *)

\* What random.seed(42) makes random.shuffle draw: Draws42[n + 1] holds, for
\* a list of n elements, the values j = randbelow(i + 1) in the order the
\* loop asks for them (i = n - 1 down to 1), as CPython's Mersenne Twister
\* produces them.
Draws42 == <<
    <<>>,
    <<>>,
    <<0>>,
    <<2, 0>>,
    <<0, 0, 1>>,
    <<0, 0, 2, 1>>,
    <<5, 0, 0, 2, 1>>,
    <<5, 0, 0, 2, 0, 0>>,
    <<1, 0, 5, 2, 1, 0, 0>>,
    <<1, 0, 5, 2, 1, 1, 0, 0>>,
    <<1, 0, 4, 1, 1, 1, 0, 2, 0>>,
    <<10, 1, 0, 4, 1, 1, 1, 0, 2, 0>>,
    <<10, 1, 0, 4, 3, 1, 1, 0, 0, 2, 1>>,
    <<10, 1, 0, 4, 3, 3, 1, 5, 0, 0, 2, 1>>,
    <<10, 1, 0, 4, 3, 3, 2, 5, 0, 4, 0, 2, 1>>,
    <<10, 1, 0, 11, 4, 3, 3, 2, 5, 0, 4, 0, 2, 1>>,
    <<3, 0, 11, 4, 3, 3, 2, 1, 1, 4, 3, 0, 0, 0, 0>>,
    <<3, 0, 11, 4, 3, 3, 2, 1, 8, 1, 4, 3, 0, 0, 0, 0>>,
    <<3, 0, 8, 3, 3, 2, 11, 1, 8, 1, 6, 0, 0, 0, 1, 0, 0>>,
    <<3, 0, 8, 7, 3, 2, 11, 1, 10, 8, 1, 6, 0, 0, 0, 1, 0, 0>>,
    <<3, 0, 8, 7, 7, 2, 11, 1, 10, 8, 1, 6, 0, 0, 0, 1, 1, 2, 0>> >>

\* an exchange that copies x[j] over x[i] and loses x[i]
SwapLossy(x, i, j) == [x EXCEPT ![i + 1] = x[j + 1]]

\* x[i], x[j] = x[j], x[i]  (i and j count from 0)
Swap(x, i, j) == [x EXCEPT ![i + 1] = x[j + 1], ![j + 1] = x[i + 1]]

\* for i in reversed(range(1, len(x))): j = randbelow(i + 1); swap
RECURSIVE ShuffleLoop(_, _, _)
ShuffleLoop(x, i, draws) ==
    IF i < 1 THEN x
    ELSE ShuffleLoop(Swap(x, i, Head(draws)), i - 1, Tail(draws))

shuffle(x) == ShuffleLoop(x, Len(x) - 1, Draws42[Len(x) + 1])

\* The doubles 0.8 and 0.1 share the 53-bit significand 0x1999999999999A:
\* 0.8 is Significand * 2^-53 and 0.1 is Significand * 2^-56.  The
\* significand is kept in limbs of LimbBits bits, lowest first.
LimbBits == 18
Significand == <<104858, 157286, 104857>>
Exp08 == 53
Exp01 == 56

RECURSIVE Pow2(_)
Pow2(k) == IF k <= 0 THEN 1 ELSE 2 * Pow2(k - 1)

RECURSIVE BitLen(_)
BitLen(x) == IF x = 0 THEN 0 ELSE 1 + BitLen(x \div 2)

Limb == Pow2(LimbBits)

\* the exact product n * Significand; the top limb takes what is left
ExactProduct(n) ==
    LET a0 == n * Significand[1]
        a1 == n * Significand[2] + (a0 \div Limb)
        a2 == n * Significand[3] + (a1 \div Limb)
    IN  <<a0 % Limb, a1 % Limb, a2>>

\* the product rounded to 53 significant bits, ties to even, as the
\* floating-point multiplication delivers it (0 < n < 2^LimbBits)
RoundToDouble(p) ==
    LET extra == BitLen(p[3]) - (53 - 2 * LimbBits)
        unit  == Pow2(extra)
        r     == p[1] % unit
        odd   == (p[1] \div unit) % 2 = 1
        up    == 2 * r > unit \/ (2 * r = unit /\ odd)
        b0    == (p[1] - r) + (IF up THEN unit ELSE 0)
        b1    == p[2] + (b0 \div Limb)
        b2    == p[3] + (b1 \div Limb)
    IN  <<b0 % Limb, b1 % Limb, b2>>

\* int(c * n) for the double c = Significand * 2^-e
IntOfProduct(n, e) ==
    IF n = 0 THEN 0
    ELSE RoundToDouble(ExactProduct(n))[3] \div Pow2(e - 2 * LimbBits)

\* a train size rounded up instead of down
TrainSizeCeil(total) == (8 * total + 9) \div 10

\* int(0.8 * total_sentences)
TrainSize(total) == IntOfProduct(total, Exp08)

\* int(0.1 * total_sentences)
DevSize(total) == IntOfProduct(total, Exp01)

Min(a, b) == IF a < b THEN a ELSE b

\* x[lo:hi] for 0 <= lo, 0 <= hi
PySlice(x, lo, hi) == SubSeq(x, lo + 1, Min(hi, Len(x)))

-----------------------------------------------------------------------------
(* The input directory *)

Suffix == ".conllu"
FileA == [stem |-> "a", suffix |-> Suffix]
FileB == [stem |-> "b", suffix |-> Suffix]
Notes == [stem |-> "notes", suffix |-> ".txt"]

\* Path.glob('*.conllu'): the matching files; a directory that does not
\* exist yields nothing and raises nothing
glob(exists, files) ==
    IF exists THEN {f \in DOMAIN files : f.suffix = Suffix} ELSE {}

\* the orders in which the directory may hand the files over
Orders(S) ==
    {o \in [1..Cardinality(S) -> S] :
        \A i, j \in 1..Cardinality(S) : i # j => o[i] # o[j]}

Rep(c, n) == [i \in 1..n |-> c]

\* a corpus file of k sentences, sentence i being the one line c^i; each
\* sentence is followed by an empty line, the last one only when `closed`
RECURSIVE CorpusText(_, _, _, _)
CorpusText(c, i, k, closed) ==
    IF i > k THEN <<>>
    ELSE Rep(c, i) \o <<LF>>
         \o (IF i < k \/ closed THEN <<LF>> ELSE <<>>)
         \o CorpusText(c, i + 1, k, closed)

CorpusFile(c, k, closed) ==
    IF k = 0 THEN (IF closed THEN <<LF>> ELSE <<>>)
    ELSE CorpusText(c, 1, k, closed)

ContentsOf(tags) ==
    {CorpusFile(c, k, closed) : c \in tags, k \in 0..MaxSent, closed \in BOOLEAN}

Directories ==
    {fa @@ fb @@ fn :
        fa \in {<<>>} \cup {(FileA :> d) : d \in ContentsOf({"a"})},
        fb \in {<<>>} \cup {(FileB :> d) : d \in ContentsOf(Letters)},
        fn \in {<<>>, (Notes :> <<"n", LF>>)}}

Stale == [exists |-> TRUE, data |-> <<"s", LF>>]

-----------------------------------------------------------------------------
(* main() *)

Init ==
    /\ ReadIdle /\ TripIdle
    /\ dir_exists \in BOOLEAN
    /\ dir_files \in (IF dir_exists THEN Directories ELSE {<<>>})
    /\ out_files \in {[n \in OutputSet |-> NoFile], [n \in OutputSet |-> Stale]}
    /\ out_before = out_files
    /\ pc = "start"
    /\ conllu_files = <<>>
    /\ all_sentences = <<>>
    /\ train_size = 0 /\ dev_size = 0 /\ test_size = 0
    /\ train_sentences = <<>> /\ dev_sentences = <<>> /\ test_sentences = <<>>
    /\ written = 0
    /\ console = <<>>
    /\ error = "none"
    /\ history = <<>>

Terminal == {"returned", "done", "aborted"}

\* the glob of a directory that does not exist raises
GlobRaising ==
    /\ pc = "start"
    /\ IF ~dir_exists
       THEN /\ pc' = "aborted"
            /\ error' = "FileNotFoundError"
            /\ UNCHANGED <<conllu_files, console>>
       ELSE /\ \E o \in Orders(glob(dir_exists, dir_files)) : conllu_files' = o
            /\ error' = "none"
            /\ IF conllu_files' = <<>>
               THEN /\ console' = Append(console, [msg |-> "no files"])
                    /\ pc' = "returned"
               ELSE /\ console' = Append(console,
                           [msg |-> "found", n |-> Len(conllu_files')])
                    /\ pc' = "read"
    /\ UNCHANGED <<dir_exists, dir_files, out_files, all_sentences,
                   train_size, dev_size, test_size,
                   train_sentences, dev_sentences, test_sentences,
                   written, history, out_before, readVars, tripVars>>

\* no early return when nothing matches
GlobNoReturn ==
    /\ pc = "start"
    /\ \E o \in Orders(glob(dir_exists, dir_files)) : conllu_files' = o
    /\ console' = Append(console, [msg |-> "found", n |-> Len(conllu_files')])
    /\ pc' = "read"
    /\ UNCHANGED <<dir_exists, dir_files, out_files, all_sentences,
                   train_size, dev_size, test_size,
                   train_sentences, dev_sentences, test_sentences,
                   written, error, history, out_before, readVars, tripVars>>

\* lines 62-72: list the input files, in the order the directory gives
\* them; report and return when there is none
Glob ==
    /\ pc = "start"
    /\ \E o \in Orders(glob(dir_exists, dir_files)) : conllu_files' = o
    /\ IF conllu_files' = <<>>
       THEN /\ console' = Append(console, [msg |-> "no files"])
            /\ pc' = "returned"
       ELSE /\ console' = Append(console,
                   [msg |-> "found", n |-> Len(conllu_files')])
            /\ pc' = "read"
    /\ UNCHANGED <<dir_exists, dir_files, out_files, all_sentences,
                   train_size, dev_size, test_size,
                   train_sentences, dev_sentences, test_sentences,
                   written, error, history, out_before, readVars, tripVars>>

\* the Sentences of the files, file after file
RECURSIVE ReadFiles(_, _)
ReadFiles(files, order) ==
    IF order = <<>> THEN <<>>
    ELSE read_conllu_sentences(files[Head(order)])
         \o ReadFiles(files, Tail(order))

\* lines 74-86: read every file into all_sentences
ReadAll ==
    /\ pc = "read"
    /\ all_sentences' = ReadFiles(dir_files, conllu_files)
    /\ console' = Append(console, [msg |-> "total", n |-> Len(all_sentences')])
    /\ pc' = "shuffle"
    /\ UNCHANGED <<dir_exists, dir_files, out_files, conllu_files,
                   train_size, dev_size, test_size,
                   train_sentences, dev_sentences, test_sentences,
                   written, error, history, out_before, readVars, tripVars>>

\* lines 88-90
Shuffle ==
    /\ pc = "shuffle"
    /\ all_sentences' = shuffle(all_sentences)
    /\ pc' = "sizes"
    /\ UNCHANGED <<dir_exists, dir_files, out_files, conllu_files,
                   train_size, dev_size, test_size,
                   train_sentences, dev_sentences, test_sentences,
                   written, console, error, history, out_before,
                   readVars, tripVars>>

\* lines 92-96
SplitSizes ==
    /\ pc = "sizes"
    /\ LET total_sentences == Len(all_sentences)
       IN  /\ train_size' = TrainSize(total_sentences)
           /\ dev_size' = DevSize(total_sentences)
           /\ test_size' = total_sentences - train_size' - dev_size'
    /\ pc' = "report"
    /\ UNCHANGED <<dir_exists, dir_files, out_files, conllu_files, all_sentences,
                   train_sentences, dev_sentences, test_sentences,
                   written, console, error, history, out_before,
                   readVars, tripVars>>

\* lines 98-101: the percentages divide by total_sentences
ReportSizes ==
    /\ pc = "report"
    /\ IF Len(all_sentences) = 0
       THEN /\ error' = "ZeroDivisionError"
            /\ pc' = "aborted"
            /\ UNCHANGED console
       ELSE /\ console' = Append(console,
                   [msg |-> "sizes", train |-> train_size, dev |-> dev_size,
                    test |-> test_size])
            /\ pc' = "slice"
            /\ UNCHANGED error
    /\ UNCHANGED <<dir_exists, dir_files, out_files, conllu_files, all_sentences,
                   train_size, dev_size, test_size,
                   train_sentences, dev_sentences, test_sentences,
                   written, history, out_before, readVars, tripVars>>

\* lines 103-113
Slice ==
    /\ pc = "slice"
    /\ train_sentences' = PySlice(all_sentences, 0, train_size)
    /\ dev_sentences' = PySlice(all_sentences, train_size, train_size + dev_size)
    /\ test_sentences' =
           PySlice(all_sentences, train_size + dev_size, Len(all_sentences))
    /\ written' = 0
    /\ pc' = "write"
    /\ UNCHANGED <<dir_exists, dir_files, out_files, conllu_files, all_sentences,
                   train_size, dev_size, test_size,
                   console, error, history, out_before, readVars, tripVars>>

\* output_files[written]
OutputSentences ==
    <<train_sentences, dev_sentences, test_sentences>>[written + 1]

\* lines 115-118, one iteration in which every call succeeds
WriteOutput ==
    /\ pc = "write"
    /\ out_files' = [out_files EXCEPT ![OutputNames[written + 1]] =
           [exists |-> TRUE, data |-> write_conllu_sentences(OutputSentences)]]
    /\ written' = written + 1
    /\ pc' = IF written' = 3 THEN "verify" ELSE "write"
    /\ UNCHANGED <<dir_exists, dir_files, conllu_files, all_sentences,
                   train_size, dev_size, test_size,
                   train_sentences, dev_sentences, test_sentences,
                   console, error, history, out_before, readVars, tripVars>>

\* lines 115-118, one iteration in which open() raises: the file is left
\* as it was and nothing in main() catches the exception
OpenFails ==
    /\ pc = "write"
    /\ error' = "OSError"
    /\ pc' = "aborted"
    /\ UNCHANGED <<dir_exists, dir_files, out_files, conllu_files, all_sentences,
                   train_size, dev_size, test_size,
                   train_sentences, dev_sentences, test_sentences,
                   written, console, history, out_before, readVars, tripVars>>

\* lines 115-118, one iteration in which a call of f.write raises: the file
\* holds what the calls before it wrote, and the exception leaves main()
WriteFails ==
    /\ pc = "write"
    /\ \E k \in 1..Len(WriteCalls(OutputSentences, 0)) :
          out_files' = [out_files EXCEPT ![OutputNames[written + 1]] =
              [exists |-> TRUE,
               data |-> Flatten(SubSeq(WriteCalls(OutputSentences, 0), 1, k - 1))]]
    /\ error' = "OSError"
    /\ pc' = "aborted"
    /\ UNCHANGED <<dir_exists, dir_files, conllu_files, all_sentences,
                   train_size, dev_size, test_size,
                   train_sentences, dev_sentences, test_sentences,
                   written, console, history, out_before, readVars, tripVars>>

\* the line the verification loop prints for one output file
VerifyLine(name) ==
    IF out_files[name].exists
    THEN [msg |-> "verified", file |-> name, bytes |-> Len(out_files[name].data)]
    ELSE [msg |-> "not created", file |-> name]

\* lines 120-128
Verify ==
    /\ pc = "verify"
    /\ console' = console \o [i \in 1..3 |-> VerifyLine(OutputNames[i])]
    /\ pc' = "done"
    /\ UNCHANGED <<dir_exists, dir_files, out_files, conllu_files, all_sentences,
                   train_size, dev_size, test_size,
                   train_sentences, dev_sentences, test_sentences,
                   written, error, history, out_before, readVars, tripVars>>

\* lines 131-132: after a run that ended without an exception the script is
\* run a second time over the same directory
Rerun ==
    /\ pc \in {"returned", "done"}
    /\ history = <<>>
    /\ history' = Append(history,
           [status |-> pc, order |-> conllu_files, out |-> out_files])
    /\ out_before' = out_files
    /\ pc' = "start"
    /\ conllu_files' = <<>>
    /\ all_sentences' = <<>>
    /\ train_size' = 0 /\ dev_size' = 0 /\ test_size' = 0
    /\ train_sentences' = <<>> /\ dev_sentences' = <<>> /\ test_sentences' = <<>>
    /\ written' = 0
    /\ console' = <<>>
    /\ error' = "none"
    /\ UNCHANGED <<dir_exists, dir_files, out_files, readVars, tripVars>>

Next ==
    \/ Glob \/ ReadAll \/ Shuffle \/ SplitSizes \/ ReportSizes \/ Slice
    \/ WriteOutput \/ OpenFails \/ WriteFails \/ Verify \/ Rerun

Spec == Init /\ [][Next]_vars

-----------------------------------------------------------------------------
(* Claims about main() (Spec) *)

Range(x) == {x[i] : i \in 1..Len(x)}

\* the multiset of the elements of a sequence
BagOf(x) == [e \in Range(x) |-> Cardinality({i \in 1..Len(x) : x[i] = e})]

\* the Corpus of this run: the Sentences of the files in discovery order
Corpus == ReadFiles(dir_files, conllu_files)

\* the split sizes have been computed in this run
SizesComputed == pc \in {"report", "slice", "write", "verify", "done"}

\* the three Partitions have been sliced in this run
Sliced ==
    \/ pc \in {"write", "verify", "done"}
    \/ pc = "aborted" /\ error = "OSError"

\* C1: once main() has shuffled and sliced, the sizes of train, dev and test
\* add up to the size of the Corpus and the three together hold exactly the
\* Sentences of the Corpus, each as often as the Corpus holds it.
C1_Conservation ==
    Sliced =>
        /\ Len(train_sentences) + Len(dev_sentences) + Len(test_sentences)
              = Len(Corpus)
        /\ BagOf(train_sentences \o dev_sentences \o test_sentences)
              = BagOf(Corpus)

\* two files of five sentences each, the same five, split and written
C1_Witness ==
    /\ pc = "done"
    /\ Len(conllu_files) = 2
    /\ Len(Corpus) = 10
    /\ Cardinality(Range(Corpus)) = 5
    /\ Len(train_sentences) = 8

\* C2: for a Corpus of total >= 1 Sentences, train_size = floor(0.8 total),
\* dev_size = floor(0.1 total), test_size = total - train_size - dev_size
\* >= 0, and train, dev and test are the first train_size, the next
\* dev_size and the remaining Sentences of the shuffled sequence; 10 gives
\* 8, 1, 1 and 7 gives 5, 0, 2.
C2_SplitSizes ==
    LET total == Len(all_sentences)
    IN  /\ (SizesComputed /\ total >= 1) =>
              /\ train_size = (8 * total) \div 10
              /\ dev_size = total \div 10
              /\ test_size = total - train_size - dev_size
              /\ test_size >= 0
              /\ total = 10 => <<train_size, dev_size, test_size>> = <<8, 1, 1>>
              /\ total = 7 => <<train_size, dev_size, test_size>> = <<5, 0, 2>>
        /\ Sliced =>
              /\ train_sentences \o dev_sentences \o test_sentences
                    = all_sentences
              /\ Len(train_sentences) = train_size
              /\ Len(dev_sentences) = dev_size
              /\ Len(test_sentences) = test_size

\* a Corpus of seven Sentences split into 5, 0 and 2
C2_Witness ==
    /\ pc = "done"
    /\ Len(all_sentences) = 7
    /\ Len(train_sentences) = 5
    /\ Len(dev_sentences) = 0
    /\ Len(test_sentences) = 2

\* C4 (as claimed): two runs of main() over the same directory that both
\* complete leave the same train, dev and test files.
C4_Determinism ==
    (history # <<>> /\ history[1].status = "done" /\ pc = "done")
        => out_files = history[1].out

\* C5 (as claimed): the split sizes are never computed, and their
\* percentages never reported, for a Corpus of no Sentences.
C5_EmptyCorpusHaltsEarly ==
    (SizesComputed \/ error = "ZeroDivisionError") => Len(all_sentences) > 0

\* C6: when the directory exists and holds no file matching *.conllu, the
\* run reports it and returns without raising, and the output files stay as
\* they were when the run started.
C6_NoInputFiles ==
    (dir_exists /\ glob(dir_exists, dir_files) = {}) =>
        /\ pc \in {"start", "returned"}
        /\ error = "none"
        /\ out_files = out_before
        /\ pc = "returned" => console = <<[msg |-> "no files"]>>

\* a directory holding only notes.txt, and output files of an earlier day
C6_Witness ==
    /\ dir_exists
    /\ DOMAIN dir_files = {Notes}
    /\ pc = "returned"
    /\ \A n \in OutputSet : out_files[n] = Stale

\* C7 (as claimed): a run in which writing an output file failed still
\* prints the verification lines.
C7_WriteFailureVerified ==
    (pc \in Terminal /\ error = "OSError") =>
        \E i \in 1..Len(console) : console[i].msg \in {"verified", "not created"}

\* C8 (as claimed): a run over a directory that does not exist ends with an
\* unhandled I/O error.
C8_MissingDirAborts ==
    (~dir_exists /\ pc \in Terminal) => (pc = "aborted" /\ error # "none")

\* C8 (amended): a run over a directory that does not exist reports that no
\* .conllu file was found and returns without raising, leaving the output
\* files as they were, as for a directory without matching files.
C8_MissingDirReturns ==
    ~dir_exists =>
        /\ pc \in {"start", "returned"}
        /\ error = "none"
        /\ out_files = out_before
        /\ pc = "returned" => console = <<[msg |-> "no files"]>>

\* the run over the missing directory has returned
C8_Witness ==
    /\ ~dir_exists
    /\ pc = "returned"
    /\ conllu_files = <<>>

\* Two completed runs that were handed the files in the same order leave
\* the same output files.
SameOrderSameOutput ==
    (history # <<>> /\ history[1].status = "done" /\ pc = "done"
        /\ history[1].order = conllu_files)
        => out_files = history[1].out

====
